---- MODULE Spec2Model ----
(***************************************************************************)
(* proxy-toolkit: the process-wide template cache and environment probe    *)
(* (port_proxy.py) and the port registry of PortServer (server.py).        *)
(*                                                                         *)
(* Python strings are sequences of one-character strings, so that          *)
(* str.replace, str.startswith, str.split and urlparse are computed on     *)
(* characters as the interpreter computes them.  Python's None is the      *)
(* one-element sequence <<"None">>, which no character string equals.      *)
(***************************************************************************)
EXTENDS Integers, Sequences, FiniteSets, TLC

None == <<"None">>

EmptyStr == <<>>

----------------------------------------------------------------------------
(* String helpers: the str methods the code calls.                         *)

\* s[i:] of Python for a 0-based offset n: the string without its first n characters
Drop(s, n) == IF n >= Len(s) THEN <<>> ELSE SubSeq(s, n + 1, Len(s))

\* s.startswith(prefix)
StartsWith(s, prefix) ==
    /\ Len(s) >= Len(prefix)
    /\ SubSeq(s, 1, Len(prefix)) = prefix

\* s.replace(old, new): one left-to-right pass over non-overlapping occurrences
RECURSIVE StrReplace(_, _, _)
StrReplace(s, old, new) ==
    IF Len(s) = 0 THEN <<>>
    ELSE IF StartsWith(s, old) THEN new \o StrReplace(Drop(s, Len(old)), old, new)
    ELSE <<Head(s)>> \o StrReplace(Tail(s), old, new)

\* old in s
RECURSIVE Contains(_, _)
Contains(s, old) ==
    IF Len(s) < Len(old) THEN FALSE
    ELSE StartsWith(s, old) \/ Contains(Tail(s), old)

\* the offset (0-based) of the first character of s that is in chars, Len(s) when none
RECURSIVE FindFirstOf(_, _)
FindFirstOf(s, chars) ==
    IF Len(s) = 0 THEN 0
    ELSE IF Head(s) \in chars THEN 0
    ELSE 1 + FindFirstOf(Tail(s), chars)

\* s.split(sep) for a one-character separator: the list of pieces, empty ones kept
RECURSIVE StrSplit(_, _)
StrSplit(s, sep) ==
    LET i == FindFirstOf(s, {sep})
    IN IF i = Len(s) THEN <<s>>
       ELSE <<SubSeq(s, 1, i)>> \o StrSplit(Drop(s, i + 1), sep)

\* str(n) for an int: decimal digits, a leading minus sign for a negative number
Digit(d) == <<"0", "1", "2", "3", "4", "5", "6", "7", "8", "9">>[d + 1]

RECURSIVE NatStr(_)
NatStr(n) == IF n < 10 THEN <<Digit(n)>> ELSE NatStr(n \div 10) \o <<Digit(n % 10)>>

IntStr(n) == IF n < 0 THEN <<"-">> \o NatStr(0 - n) ELSE NatStr(n)

----------------------------------------------------------------------------
(* String literals of the source.                                          *)

PortToken == <<"{", "{", "p", "o", "r", "t", "}", "}">>

HttpScheme == <<"h", "t", "t", "p", ":", "/", "/">>

HttpsScheme == <<"h", "t", "t", "p", "s", ":", "/", "/">>

\* r"gradio/{{port}}/"
GradioSuffix == <<"g", "r", "a", "d", "i", "o", "/">> \o PortToken \o <<"/">>

\* r"proxy/{{port}}/"
proxy_template_literal == <<"p", "r", "o", "x", "y", "/">> \o PortToken \o <<"/">>

----------------------------------------------------------------------------
(* urllib.parse.urlparse(url).path for a url that starts with http:// or   *)
(* https://: the network location ends at the first of / ? #, the fragment *)
(* and the query are cut at the first # and ?, and the ;parameters of the  *)
(* last path segment are cut (http and https are in uses_params).          *)

\* 1-based index of the last occurrence of ch in s, 0 when there is none
RECURSIVE RFind(_, _)
RFind(s, ch) ==
    IF Len(s) = 0 THEN 0
    ELSE IF s[Len(s)] = ch THEN Len(s)
    ELSE RFind(SubSeq(s, 1, Len(s) - 1), ch)

\* _splitparams(url)[0]
SplitParams(url) ==
    LET lastSlash == RFind(url, "/")
        after == Drop(url, lastSlash)
        i == FindFirstOf(after, {";"})
    IN IF i = Len(after) THEN url ELSE SubSeq(url, 1, lastSlash + i)

UrlParsePath(url) ==
    LET afterScheme == IF StartsWith(url, HttpsScheme)
                       THEN Drop(url, Len(HttpsScheme))
                       ELSE Drop(url, Len(HttpScheme))
        afterNetloc == Drop(afterScheme, FindFirstOf(afterScheme, {"/", "?", "#"}))
        noFragment == SubSeq(afterNetloc, 1, FindFirstOf(afterNetloc, {"#"}))
        noQuery == SubSeq(noFragment, 1, FindFirstOf(noFragment, {"?"}))
    IN SplitParams(noQuery)

\* parsed_path of get_path_length
ParsedPath(url_template) ==
    IF ~(StartsWith(url_template, HttpScheme) \/ StartsWith(url_template, HttpsScheme))
    THEN url_template
    ELSE UrlParsePath(url_template)

\* len([seg for seg in parsed_path.split("/") if seg])
get_path_length(url_template) ==
    LET segs == StrSplit(ParsedPath(url_template), "/")
    IN Cardinality({i \in 1..Len(segs) : segs[i] # <<>>})

\* min(url_templates, key=get_path_length): the first element with the least key
RECURSIVE MinFrom(_, _, _)
MinFrom(url_templates, i, best) ==
    IF i > Len(url_templates) THEN best
    ELSE IF get_path_length(url_templates[i]) < get_path_length(best)
         THEN MinFrom(url_templates, i + 1, url_templates[i])
         ELSE MinFrom(url_templates, i + 1, best)

\* the mutant of select_template: the last of the candidates with the least key
RECURSIVE MinFromLast(_, _, _)
MinFromLast(url_templates, i, best) ==
    IF i > Len(url_templates) THEN best
    ELSE IF get_path_length(url_templates[i]) <= get_path_length(best)
         THEN MinFromLast(url_templates, i + 1, url_templates[i])
         ELSE MinFromLast(url_templates, i + 1, best)

select_template_LastOnTie(url_templates) ==
    IF url_templates # <<>>
    THEN MinFromLast(url_templates, 2, url_templates[1])
    ELSE EmptyStr

\* `result` of detect_service_config for the collected url_templates
select_template(url_templates) ==
    IF url_templates # <<>>
    THEN MinFrom(url_templates, 2, url_templates[1])
    ELSE EmptyStr

----------------------------------------------------------------------------
(* State.                                                                  *)

VARIABLES
    env,                     \* what the operating system shows the probes
    _cached_service_config,  \* port_proxy._cached_service_config
    proxy_template,          \* PortServer.proxy_template
    port_cache,              \* PortServer.port_cache, in dict (insertion) order
    sockets,                 \* per local port: what a connect and a lookup find
    now,                     \* time.time(), in seconds
    url_templates,           \* the candidate list handed to the selection
    call,                    \* the last call: its arguments, outcome and probes
    listener,                \* a run of check_jupyter_proxy and its throwaway listener
    tunnel,                  \* a tunnel call in flight and its upstream connection
    loop                     \* the asyncio event loop: the handler tasks and which one runs

vars == <<env, _cached_service_config, proxy_template, port_cache, sockets, now,
          url_templates, call, listener, tunnel, loop>>

----------------------------------------------------------------------------
(* The environment of the probes.                                          *)

\* a value of STUDIO_MODEL_API_URL_PREFIX: "https://h"
HostA == HttpsScheme \o <<"h">>

\* a value of JUPYTERHUB_SERVICE_PREFIX: "/u/"
PrefixA == <<"/", "u", "/">>

\* values of VSCODE_PROXY_URI: "https://{{port}}.h/" and "http://h/a/b/c/{{port}}/"
UriSubdomain == HttpsScheme \o PortToken \o <<".", "h", "/">>

UriDeep == HttpScheme \o <<"h", "/", "a", "/", "b", "/", "c", "/">> \o PortToken \o <<"/">>

\* base_url values of jpserver-*.json entries: "/" and "/u/x/"
BaseRoot == <<"/">>

BaseUser == <<"/", "u", "/", "x", "/">>

\* One jpserver-*.json entry as json.load returns it, with the answer urlopen gets
\* through that server's proxy path: json is "dict" or "list" (valid JSON that is
\* no object); resp is "200_forwarded" (the throwaway listener answered),
\* "200_direct" (the server itself answered 200), "http_error" (HTTPError),
\* "timeout" (socket.timeout).
ServerEntries ==
    { [json |-> "dict", base_url |-> BaseRoot, resp |-> "200_forwarded"],
      [json |-> "dict", base_url |-> BaseUser, resp |-> "200_direct"],
      [json |-> "dict", base_url |-> BaseRoot, resp |-> "timeout"],
      [json |-> "list", base_url |-> None, resp |-> "http_error"] }

MaxServers == 1

ServerLists == UNION {[1..n -> ServerEntries] : n \in 0..MaxServers}

\* env.marker / env.prefix: os.environ.get of the two variables (None: not set)
\* env.net: psutil.net_connections works ("ok"), raises AccessDenied ("denied"),
\*          or psutil cannot be imported ("no_psutil")
\* env.jupyter / env.code: the listening jupyter-lab / code-server process:
\*          "absent", "ok", "gone" (NoSuchProcess at Process(pid)),
\*          "env_denied" (cmdline readable, environ() raises AccessDenied)
\* env.servers: the entries of the Jupyter runtime directory
\* env.bind: whether binding the throwaway listener succeeds
\* env.uri: VSCODE_PROXY_URI in the code-server process's environment
EnvFields ==
    [ marker  |-> {None, EmptyStr, HostA},
      prefix  |-> {None, PrefixA},
      net     |-> {"ok", "denied", "no_psutil"},
      jupyter |-> {"absent", "ok", "gone"},
      code    |-> {"absent", "ok", "env_denied"},
      servers |-> ServerLists,
      bind    |-> {TRUE, FALSE},
      uri     |-> {None, UriSubdomain, UriDeep} ]

\* env.config: the file ~/.webide/proxy_config.json as update_config meets it:
\*          "missing", "valid" (a JSON object), "malformed" (no JSON, or JSON of
\*          another shape), "unreadable" (open for reading fails), "readonly"
\*          (open for writing fails)
QuietEnv ==
    [ marker |-> None, prefix |-> None, net |-> "ok", jupyter |-> "absent",
      code |-> "absent", servers |-> <<>>, bind |-> TRUE, uri |-> None,
      config |-> "missing" ]

\* a function's outcome: the value returned or the exception raised, with the
\* probes it performed
Ret(value, probes) == [raised |-> "none", value |-> value, probes |-> probes]

Raise(exc, probes) == [raised |-> exc, value |-> None, probes |-> probes]

\* the for loop over servers of check_jupyter_proxy from entry i on
RECURSIVE ProbeServers(_, _)
ProbeServers(servers, i) ==
    IF i > Len(servers) THEN Ret(EmptyStr, {})
    ELSE IF servers[i].json # "dict"
         THEN Raise("AttributeError", {})
    ELSE IF servers[i].resp \in {"200_forwarded", "200_direct"}
         THEN Ret(servers[i].base_url \o proxy_template_literal, {"round_trip"})
    ELSE LET rest == ProbeServers(servers, i + 1)
         IN [rest EXCEPT !.probes = @ \cup {"round_trip"}]

check_jupyter_proxy(e) ==
    IF e.marker # None
    THEN IF e.prefix = None THEN Raise("KeyError", {})
         ELSE IF e.marker # EmptyStr THEN Ret(e.marker \o e.prefix \o GradioSuffix, {})
         ELSE Ret(EmptyStr, {})
    ELSE IF e.servers = <<>> THEN Ret(EmptyStr, {"list_servers"})
    ELSE IF ~e.bind THEN Raise("OSError", {"list_servers", "bind_listener"})
    ELSE LET r == ProbeServers(e.servers, 1)
         IN [r EXCEPT !.probes = @ \cup {"list_servers", "bind_listener", "teardown"}]

\* check_code_server_proxy(pids) for the one code-server pid collected
check_code_server_proxy(e) ==
    IF e.code = "ok" /\ e.uri # None /\ e.uri # EmptyStr
    THEN Ret(e.uri, {"process_environ"})
    ELSE Ret(EmptyStr, {"process_environ"})

----------------------------------------------------------------------------
(* detect_service_config and generate_proxy_url.                           *)

\* the candidate list detect_service_config collects from the two checks
CollectTemplates(j, c) ==
    LET first == IF j # EmptyStr THEN <<j>> ELSE <<>>
    IN IF c # EmptyStr /\ (\A i \in 1..Len(first) : first[i] # c)
       THEN first \o <<c>>
       ELSE first

\* the end of detect_service_config's body: j and c are the outcomes of the two
\* checks (a check that was not called contributes ""), scan the probes of the loop
DetectFrom(scan, j, c) ==
    IF j.raised # "none" THEN Raise(j.raised, scan \cup j.probes)
    ELSE Ret(select_template(CollectTemplates(j.value, c.value)),
             scan \cup j.probes \cup c.probes)

\* the body of detect_service_config after the cache test: the scan of the
\* listening sockets (jupyter_pids, code_server_pids), the two checks, the selection
DetectBody(e) ==
    IF e.net = "no_psutil" THEN Ret(EmptyStr, {})
    ELSE IF e.net = "denied" THEN Raise("AccessDenied", {"net_connections"})
    ELSE DetectFrom(
            {"net_connections"} \cup
                (IF e.jupyter # "absent" \/ e.code # "absent" THEN {"process"} ELSE {}),
            IF e.jupyter = "ok" THEN check_jupyter_proxy(e) ELSE Ret(EmptyStr, {}),
            IF e.code \in {"ok", "env_denied"} THEN check_code_server_proxy(e)
            ELSE Ret(EmptyStr, {}))

\* the mutant of CacheHit: the cache is tested for truth, so "" counts as unset
CacheHit_Truthy(use_cache, cached) ==
    use_cache /\ cached # None /\ cached # EmptyStr

\* `use_cache and _cached_service_config is not None`
CacheHit(use_cache, cached) ==
    use_cache /\ cached # None

\* the mutant of CacheStore: the result is stored whatever use_cache says
CacheStore_Always(use_cache, cached, result) == result

\* `if use_cache: _cached_service_config = result`
CacheStore(use_cache, cached, result) ==
    IF use_cache THEN result ELSE cached

\* the end of detect_service_config: d is the outcome of the body
DetectDone(use_cache, cached, d) ==
    [out |-> d, detected |-> TRUE,
     cache |-> IF d.raised = "none" THEN CacheStore(use_cache, cached, d.value)
               ELSE cached]

\* detect_service_config(use_cache) with _cached_service_config = cached in
\* environment e: the outcome, whether the body ran, and the cache afterwards
detect_service_config(use_cache, cached, e) ==
    IF CacheHit(use_cache, cached)
    THEN [out |-> Ret(cached, {}), detected |-> FALSE, cache |-> cached]
    ELSE DetectDone(use_cache, cached, DetectBody(e))

\* the mutant of SubstitutePort: only the first occurrence is replaced
SubstitutePort_FirstOnly(url_template, port) ==
    LET i == IF Contains(url_template, PortToken)
             THEN CHOOSE k \in 0..Len(url_template) :
                     /\ StartsWith(Drop(url_template, k), PortToken)
                     /\ \A m \in 0..(k - 1) : ~StartsWith(Drop(url_template, m), PortToken)
             ELSE Len(url_template)
    IN IF i = Len(url_template) THEN url_template
       ELSE SubSeq(url_template, 1, i) \o IntStr(port)
            \o Drop(url_template, i + Len(PortToken))

\* url_template.replace("{{port}}", str(port))
SubstitutePort(url_template, port) ==
    StrReplace(url_template, PortToken, IntStr(port))

\* the mutant of ConfigUpdate: the config is updated whatever the template is
ConfigUpdate_Always(url_template, e) ==
    IF e.marker # None THEN {"update_config"} ELSE {}

\* `if url_template: ... if "STUDIO_MODEL_API_URL_PREFIX" in os.environ:
\*  ai_studio_manager.update_config(port)`
ConfigUpdate(url_template, e) ==
    IF url_template # EmptyStr /\ e.marker # None THEN {"update_config"} ELSE {}

\* the mutant of update_config: the failures of the file operations are not caught
update_config_Unguarded(port, e) ==
    IF e.marker = None THEN Ret(None, {})
    ELSE IF e.config \in {"missing", "valid"} THEN Ret(None, {"config_written"})
    ELSE IF e.config = "malformed" THEN Raise("JSONDecodeError", {})
    ELSE Raise("PermissionError", {})

\* AIStudioConfigManager.update_config(port): the file is rewritten, or the
\* failure is printed (`except Exception as e: print(...)`)
update_config(port, e) ==
    IF e.marker = None THEN Ret(None, {})
    ELSE IF e.config \in {"missing", "valid"} THEN Ret(None, {"config_written"})
    ELSE Ret(None, {"config_failed"})

\* the end of generate_proxy_url for a non-empty template: w is the outcome of
\* the config writer when it is invoked
GenerateDone(d, proxy_url, invoked, w) ==
    IF invoked # {} /\ w.raised # "none"
    THEN [d EXCEPT !.out = Raise(w.raised, d.out.probes \cup invoked \cup w.probes)]
    ELSE IF invoked # {}
    THEN [d EXCEPT !.out = Ret(proxy_url, d.out.probes \cup invoked \cup w.probes)]
    ELSE [d EXCEPT !.out = Ret(proxy_url, d.out.probes)]

\* generate_proxy_url after its call d of detect_service_config()
GenerateFrom(port, e, d) ==
    IF d.out.raised # "none" THEN d
    ELSE IF d.out.value # EmptyStr
    THEN GenerateDone(d, SubstitutePort(d.out.value, port),
                      ConfigUpdate(d.out.value, e), update_config(port, e))
    ELSE [d EXCEPT !.out = Ret(EmptyStr, d.out.probes \cup ConfigUpdate(d.out.value, e))]

\* the mutant of generate_proxy_url: the detection is asked anew at every call
generate_proxy_url_Uncached(port, cached, e) ==
    GenerateFrom(port, e, detect_service_config(FALSE, cached, e))

\* generate_proxy_url(port)
generate_proxy_url(port, cached, e) ==
    GenerateFrom(port, e, detect_service_config(TRUE, cached, e))

NoCall ==
    [ op |-> "none", use_cache |-> FALSE, port |-> 0, result |-> None,
      raised |-> "none", probes |-> {}, detected |-> FALSE, status |-> 0,
      body |-> <<>>, has_proxy_support |-> FALSE ]

\* no run of check_jupyter_proxy has begun
NoListener ==
    [ variant |-> "none", pc |-> "idle", i |-> 0, started |-> FALSE,
      serving |-> FALSE, received |-> 0, teardown |-> "none",
      result |-> EmptyStr, raised |-> "none" ]

\* no tunnel call has arrived
NoTunnel ==
    [ pc |-> "idle", port_raw |-> EmptyStr, u |-> None, inbound |-> <<>>,
      port |-> 0, forwarded |-> <<>>, requests |-> 0, conn |-> "none",
      body |-> <<>>, remaining |-> <<>>, held |-> <<>>, delivered |-> <<>>,
      status |-> 0, responses |-> 0, finalized |-> 0, caller |-> "connected",
      fault |-> "none", outcome |-> 0 ]

\* the handler tasks the event loop interleaves
NumTasks == 2

Tasks == 1..NumTasks

\* a task whose request has not arrived
NoTask == [pc |-> "idle", op |-> "none", port |-> 0, absent |-> FALSE, i |-> 0,
           n |-> 0, raised |-> "none", body |-> <<>>]

\* no handler has been entered; running is the task that holds the loop, 0 for none
NoLoop == [running |-> 0, tasks |-> [t \in Tasks |-> NoTask]]

\* a call of detect_service_config(use_cache)
DetectServiceConfig(use_cache) ==
    \E d \in {detect_service_config(use_cache, _cached_service_config, env)} :
       /\ _cached_service_config' = d.cache
       /\ call' = [NoCall EXCEPT !.op = "detect_service_config",
                                 !.use_cache = use_cache,
                                 !.result = d.out.value,
                                 !.raised = d.out.raised,
                                 !.probes = d.out.probes,
                                 !.detected = d.detected]
       /\ UNCHANGED <<env, proxy_template, port_cache, sockets, now,
                      url_templates, listener, tunnel, loop>>

\* a call of generate_proxy_url(port)
GenerateProxyUrl(port) ==
    \E g \in {generate_proxy_url(port, _cached_service_config, env)} :
       /\ _cached_service_config' = g.cache
       /\ call' = [NoCall EXCEPT !.op = "generate_proxy_url",
                                 !.use_cache = TRUE,
                                 !.port = port,
                                 !.result = g.out.value,
                                 !.raised = g.out.raised,
                                 !.probes = g.out.probes,
                                 !.detected = g.detected]
       /\ UNCHANGED <<env, proxy_template, port_cache, sockets, now,
                      url_templates, listener, tunnel, loop>>

\* the environment changes between calls: one field takes another value
EnvChange ==
    /\ \E f \in DOMAIN EnvFields : \E v \in EnvFields[f] :
          /\ v # env[f]
          /\ env' = [env EXCEPT ![f] = v]
    /\ call' = NoCall
    /\ UNCHANGED <<_cached_service_config, proxy_template, port_cache, sockets,
                   now, url_templates, listener, tunnel, loop>>

----------------------------------------------------------------------------
(* PortServer: the port registry.                                          *)

\* Optional[int]: no element for None, one element for a value
NoInt == <<>>

SomeInt(n) == <<n>>

\* the names a process lookup reports: process.name() and ' '.join(cmdline)
ProcName == <<"p", "y">>

ProcCmdline == <<"p", "y", " ", "-", "m">>

\* the pid of the process that owns the listening socket of a port
OwnerPid(port) == 1000 + port

\* PortInfo.__init__
PortInfo(port) ==
    [ port |-> port, is_listening |-> FALSE, process_name |-> None,
      process_pid |-> NoInt, process_cmdline |-> None, last_check |-> 0,
      proxy_url |-> None ]

\* PortInfo.to_dict
to_dict(info) ==
    [ port |-> info.port, is_listening |-> info.is_listening,
      process_name |-> info.process_name, process_pid |-> info.process_pid,
      process_cmdline |-> info.process_cmdline, proxy_url |-> info.proxy_url ]

\* what a probe of a local port finds: "closed", "open_ok" (a listening socket
\* whose process can be read), "open_gone" (its process vanished or is denied),
\* "open_no_table" (listening, but psutil.net_connections raises)
SocketStates == {"closed", "open_ok", "open_gone", "open_no_table"}

SocketOf(port) == IF port \in DOMAIN sockets THEN sockets[port] ELSE "closed"

\* _is_port_listening
_is_port_listening(port) == SocketOf(port) # "closed"

\* _get_port_process: the owner found, or none
_get_port_process(port) ==
    IF SocketOf(port) = "open_ok"
    THEN [found |-> TRUE, pid |-> SomeInt(OwnerPid(port)), name |-> ProcName,
          cmdline |-> ProcCmdline]
    ELSE [found |-> FALSE, pid |-> NoInt, name |-> None, cmdline |-> None]

ThrottleSeconds == 5

\* the mutant of Throttled: the window is tested against the wrong bound
Throttled_Never(info, t) == t - info.last_check < 0

\* `time.time() - port_info.last_check < 5`
Throttled(info, t) == t - info.last_check < ThrottleSeconds

\* the mutant of WithOwner: the owner fields are only assigned when an owner is found
WithOwner_KeepStale(info, t, listening, process_info) ==
    [info EXCEPT
        !.last_check = t,
        !.is_listening = listening,
        !.process_pid = IF listening /\ process_info.found
                        THEN process_info.pid ELSE @,
        !.process_name = IF listening /\ process_info.found
                         THEN process_info.name ELSE @,
        !.process_cmdline = IF listening /\ process_info.found
                            THEN process_info.cmdline ELSE @]

\* the mutant of WithOwner: a port that does not listen keeps its owner fields
WithOwner_KeepWhenClosed(info, t, listening, process_info) ==
    [info EXCEPT
        !.last_check = t,
        !.is_listening = listening,
        !.process_pid = IF ~listening THEN @
                        ELSE IF process_info.found THEN process_info.pid ELSE NoInt,
        !.process_name = IF ~listening THEN @
                         ELSE IF process_info.found THEN process_info.name ELSE None,
        !.process_cmdline = IF ~listening THEN @
                            ELSE IF process_info.found THEN process_info.cmdline
                            ELSE None]

\* the owner fields _update_port_info assigns
WithOwner(info, t, listening, process_info) ==
    [info EXCEPT
        !.last_check = t,
        !.is_listening = listening,
        !.process_pid = IF listening /\ process_info.found
                        THEN process_info.pid ELSE NoInt,
        !.process_name = IF listening /\ process_info.found
                         THEN process_info.name ELSE None,
        !.process_cmdline = IF listening /\ process_info.found
                            THEN process_info.cmdline ELSE None]

\* the end of _update_port_info: probed is the record after the probes, g the
\* outcome of generate_proxy_url (its exception escapes)
UpdateDone(probed, g) ==
    IF g.out.raised # "none"
    THEN [info |-> probed,
          out |-> Raise(g.out.raised,
                        {"connect", "generate_proxy_url"} \cup g.out.probes \cup
                        (IF probed.is_listening THEN {"process_lookup"} ELSE {})),
          cache |-> g.cache]
    ELSE [info |-> [probed EXCEPT !.proxy_url = g.out.value],
          out |-> Ret(None,
                      {"connect", "generate_proxy_url"} \cup g.out.probes \cup
                      (IF probed.is_listening THEN {"process_lookup"} ELSE {})),
          cache |-> g.cache]

\* _update_port_info(port_info) at time t: the record afterwards, the outcome,
\* the probes performed and the template cache afterwards
_update_port_info(info, t, cached, e) ==
    IF Throttled(info, t)
    THEN [info |-> info, out |-> Ret(None, {}), cache |-> cached]
    ELSE UpdateDone(WithOwner(info, t, _is_port_listening(info.port),
                              _get_port_process(info.port)),
                    generate_proxy_url(info.port, cached, e))

\* the position of a port in port_cache, 0 when it has no record
IndexOf(cache, port) ==
    IF \E i \in 1..Len(cache) : cache[i].port = port
    THEN CHOOSE i \in 1..Len(cache) : cache[i].port = port
    ELSE 0

\* `if port not in self.port_cache: self.port_cache[port] = PortInfo(port)`
WithRecord(cache, port) ==
    IF IndexOf(cache, port) = 0 THEN Append(cache, PortInfo(port)) ELSE cache

\* GET /api/port/{port} with an integer port: port_info_handler
port_info_handler(port) ==
    \E inserted \in {WithRecord(port_cache, port)} :
    \E i \in {IndexOf(inserted, port)} :
    \E u \in {_update_port_info(inserted[i], now, _cached_service_config, env)} :
       /\ port_cache' = [inserted EXCEPT ![i] = u.info]
       /\ _cached_service_config' = u.cache
       /\ call' = [NoCall EXCEPT !.op = "port_info_handler",
                                 !.port = port,
                                 !.raised = u.out.raised,
                                 !.probes = u.out.probes,
                                 !.status = IF u.out.raised = "none" THEN 200 ELSE 500,
                                 !.body = IF u.out.raised = "none"
                                          THEN <<to_dict(u.info)>> ELSE <<>>]
       /\ UNCHANGED <<env, proxy_template, sockets, now, url_templates,
                      listener, tunnel, loop>>

\* one step of list_ports_handler's for loop: acc is the state after the records
\* before position i, u the outcome of _update_port_info on record i
ListStep(acc, i, u) ==
    [cache |-> [acc.cache EXCEPT ![i] = u.info],
     out |-> IF u.out.raised # "none" THEN Raise(u.out.raised, acc.out.probes \cup u.out.probes)
             ELSE Ret(None, acc.out.probes \cup u.out.probes),
     cached |-> u.cache]

\* the for loop of list_ports_handler over the records from position i on; an
\* exception ends it
RECURSIVE UpdateAll(_, _, _, _)
UpdateAll(acc, i, t, e) ==
    IF i > Len(acc.cache) \/ acc.out.raised # "none" THEN acc
    ELSE UpdateAll(ListStep(acc, i, _update_port_info(acc.cache[i], t, acc.cached, e)),
                   i + 1, t, e)

\* GET /api/ports: list_ports_handler
list_ports_handler ==
    \E r \in {UpdateAll([cache |-> port_cache, out |-> Ret(None, {}),
                         cached |-> _cached_service_config], 1, now, env)} :
       /\ port_cache' = r.cache
       /\ _cached_service_config' = r.cached
       /\ call' = [NoCall EXCEPT !.op = "list_ports_handler",
                                 !.raised = r.out.raised,
                                 !.probes = r.out.probes,
                                 !.status = IF r.out.raised = "none" THEN 200 ELSE 500]
       /\ UNCHANGED <<env, proxy_template, sockets, now, url_templates,
                      listener, tunnel, loop>>

\* GET /api/url-template: the template of the server and whether it is non-empty
url_template_handler ==
    /\ call' = [NoCall EXCEPT !.op = "url_template_handler",
                              !.result = proxy_template,
                              !.has_proxy_support = (proxy_template # EmptyStr),
                              !.status = 200]
    /\ UNCHANGED <<env, _cached_service_config, proxy_template, port_cache,
                   sockets, now, url_templates, listener, tunnel, loop>>

----------------------------------------------------------------------------
(* The clock and the local sockets.                                        *)

\* time.time() when the server is constructed, and how long it is watched
StartTime == 5

TimeSpan == 5

MaxTime == StartTime + TimeSpan

\* the local ports the requests name
Ports == {80, 8080}

Tick ==
    /\ now < MaxTime
    /\ now' = now + 1
    /\ UNCHANGED <<env, _cached_service_config, proxy_template, port_cache,
                   sockets, url_templates, call, listener, tunnel, loop>>

\* a local service starts or stops listening, or its process goes away
SocketChange ==
    /\ \E p \in Ports : \E st \in SocketStates :
          /\ st # sockets[p]
          /\ sockets' = [sockets EXCEPT ![p] = st]
    /\ UNCHANGED <<env, _cached_service_config, proxy_template, port_cache,
                   now, url_templates, call, listener, tunnel, loop>>

----------------------------------------------------------------------------
(* The running server: the state after PortServer.__init__, then requests. *)

\* the environments a server is constructed in: no proxy, the platform with its
\* notebook server, a code-server with its proxy URI
PlatformEnv ==
    [QuietEnv EXCEPT !.marker = HostA, !.prefix = PrefixA, !.jupyter = "ok"]

CodeServerEnv == [QuietEnv EXCEPT !.code = "ok", !.uri = UriDeep]

ServerEnvs == {QuietEnv, PlatformEnv, CodeServerEnv}

\* PortServer.__init__ in environment e, with the cache as the process start leaves it
Constructed(e) ==
    \E d \in {detect_service_config(TRUE, None, e)} :
       /\ d.out.raised = "none"
       /\ env = e
       /\ _cached_service_config = d.cache
       /\ proxy_template = d.out.value
       /\ port_cache = <<>>
       /\ now = StartTime
       /\ url_templates = <<>>
       /\ call = NoCall
       /\ listener = NoListener
       /\ tunnel = NoTunnel
       /\ loop = NoLoop

Init ==
    /\ \E e \in ServerEnvs : Constructed(e)
    /\ sockets = [p \in Ports |-> "closed"]

Next ==
    \/ \E port \in Ports : port_info_handler(port)
    \/ list_ports_handler
    \/ Tick
    \/ SocketChange

Spec == Init /\ [][Next]_vars

----------------------------------------------------------------------------
(* Filling the registry: requests name a port that has a record or the     *)
(* least port that has none (ports without a record are interchangeable).  *)

FillPorts == 101

InitFill ==
    /\ Constructed(QuietEnv)
    /\ sockets = [p \in Ports |-> "closed"]

NextFill ==
    \E port \in 1..(Len(port_cache) + 1) :
        /\ port <= FillPorts
        /\ port_info_handler(port)

SpecFill == InitFill /\ [][NextFill]_vars

----------------------------------------------------------------------------
(* The process from its start: detection calls in a changing environment.  *)

InitDetect ==
    /\ env = QuietEnv
    /\ _cached_service_config = None
    /\ proxy_template = None
    /\ port_cache = <<>>
    /\ sockets = [p \in Ports |-> "closed"]
    /\ now = StartTime
    /\ url_templates = <<>>
    /\ call = NoCall
    /\ listener = NoListener
    /\ tunnel = NoTunnel
    /\ loop = NoLoop

NextDetect ==
    \/ \E use_cache \in BOOLEAN : DetectServiceConfig(use_cache)
    \/ EnvChange

SpecDetect == InitDetect /\ [][NextDetect]_vars

----------------------------------------------------------------------------
(* The selection alone, on candidate lists drawn from sample templates.    *)

\* "http://h/{{port}}?u=/a/b"
TplQuery == HttpScheme \o <<"h", "/">> \o PortToken \o <<"?", "u", "=", "/", "a", "/", "b">>

\* "HTTP://h/{{port}}"
TplUpperScheme == <<"H", "T", "T", "P", ":", "/", "/", "h", "/">> \o PortToken

\* "https://h/{{port}}/;v"
TplParams == HttpsScheme \o <<"h", "/">> \o PortToken \o <<"/", ";", "v">>

\* "a//{{port}}"
TplDoubleSlash == <<"a", "/", "/">> \o PortToken

\* "https://h#/{{port}}/b"
TplFragment == HttpsScheme \o <<"h", "#", "/">> \o PortToken \o <<"/", "b">>

CandidateTemplates ==
    { BaseRoot \o proxy_template_literal, BaseUser \o proxy_template_literal,
      HostA \o PrefixA \o GradioSuffix, UriSubdomain, UriDeep, TplQuery,
      TplUpperScheme, TplParams, TplDoubleSlash, TplFragment }

MaxTemplates == 3

\* the lists detect_service_config can collect: no template twice
CandidateLists ==
    { l \in UNION {[1..n -> CandidateTemplates] : n \in 0..MaxTemplates} :
        \A i, j \in 1..Len(l) : i # j => l[i] # l[j] }

\* `result = min(url_templates, key=get_path_length)` or `result = ""`
SelectTemplate ==
    /\ call.op = "none"
    /\ call' = [NoCall EXCEPT !.op = "select_template",
                              !.result = select_template(url_templates)]
    /\ UNCHANGED <<env, _cached_service_config, proxy_template, port_cache,
                   sockets, now, url_templates, listener, tunnel, loop>>

InitSelect ==
    /\ env = QuietEnv
    /\ _cached_service_config = None
    /\ proxy_template = None
    /\ port_cache = <<>>
    /\ sockets = [p \in Ports |-> "closed"]
    /\ now = StartTime
    /\ url_templates \in CandidateLists
    /\ call = NoCall
    /\ listener = NoListener
    /\ tunnel = NoTunnel
    /\ loop = NoLoop

NextSelect == SelectTemplate

SpecSelect == InitSelect /\ [][NextSelect]_vars

----------------------------------------------------------------------------
(* generate_proxy_url and the url-template endpoint on a cached template.  *)

\* "a/{{port}}/b/{{port}}"
TplTwice == <<"a", "/">> \o PortToken \o <<"/", "b", "/">> \o PortToken

\* "{{port}}{{port}}"
TplAdjacent == PortToken \o PortToken

\* "{{{port}}}"
TplExtraBraces == <<"{">> \o PortToken \o <<"}">>

\* "{{port}" : no token
TplBroken == <<"{", "{", "p", "o", "r", "t", "}">>

\* "{{po{{port}}rt}}"
TplNested == <<"{", "{", "p", "o">> \o PortToken \o <<"r", "t", "}", "}">>

\* "/static/" : no token
TplStatic == <<"/", "s", "t", "a", "t", "i", "c", "/">>

UrlTemplates ==
    { EmptyStr, HostA \o PrefixA \o GradioSuffix, BaseRoot \o proxy_template_literal,
      UriSubdomain, TplTwice, TplAdjacent, TplExtraBraces, TplBroken, TplNested,
      TplStatic }

PortSamples == {1, 80, 8080, 65535}

InitUrl ==
    /\ \E e \in {QuietEnv, PlatformEnv} :
       \E config \in {"missing", "valid", "malformed", "unreadable", "readonly"} :
          env = [e EXCEPT !.config = config]
    /\ _cached_service_config \in UrlTemplates
    /\ proxy_template = _cached_service_config
    /\ port_cache = <<>>
    /\ sockets = [p \in Ports |-> "closed"]
    /\ now = StartTime
    /\ url_templates = <<>>
    /\ call = NoCall
    /\ listener = NoListener
    /\ tunnel = NoTunnel
    /\ loop = NoLoop

NextUrl ==
    \/ \E port \in PortSamples : GenerateProxyUrl(port)
    \/ url_template_handler

SpecUrl == InitUrl /\ [][NextUrl]_vars

----------------------------------------------------------------------------
(* GET /api/port/{port} from the path segment the router hands over.       *)

\* the value of a decimal digit, -1 for any other character
DigitVal(c) == IF \E d \in 0..9 : Digit(d) = c
               THEN CHOOSE d \in 0..9 : Digit(d) = c ELSE 0 - 1

\* the value of a string of decimal digits after the digits read so far
RECURSIVE DigitsVal(_, _)
DigitsVal(s, acc) ==
    IF Len(s) = 0 THEN acc
    ELSE DigitsVal(Tail(s), acc * 10 + DigitVal(Head(s)))

\* int(s) for a path segment without blanks or underscores: an optional sign and
\* at least one decimal digit, any size; anything else is a ValueError (ok FALSE)
int(s) ==
    LET signed == Len(s) > 0 /\ Head(s) \in {"+", "-"}
        digits == IF signed THEN Tail(s) ELSE s
    IN IF Len(digits) = 0 \/ \E i \in 1..Len(digits) : DigitVal(digits[i]) < 0
       THEN [ok |-> FALSE, value |-> 0]
       ELSE [ok |-> TRUE,
             value |-> IF signed /\ Head(s) = "-" THEN 0 - DigitsVal(digits, 0)
                       ELSE DigitsVal(digits, 0)]

\* GET /api/port/{port}: `try: port = int(request.match_info["port"])
\* except ValueError: return ... status=400`, then the handler on the integer
PortInfoRequest(raw) ==
    \E parsed \in {int(raw)} :
       IF ~parsed.ok
       THEN /\ call' = [NoCall EXCEPT !.op = "port_info_handler", !.status = 400]
            /\ UNCHANGED <<env, _cached_service_config, proxy_template, port_cache,
                           sockets, now, url_templates, listener, tunnel, loop>>
       ELSE port_info_handler(parsed.value)

\* the path segments requested: "80", "+80", "0", "-1", "70000", "65535", "abc", "8o"
RawPorts ==
    { <<"8", "0">>, <<"+", "8", "0">>, <<"0">>, <<"-", "1">>,
      <<"7", "0", "0", "0", "0">>, <<"6", "5", "5", "3", "5">>,
      <<"a", "b", "c">>, <<"8", "o">> }

InitRoute ==
    /\ \E e \in ServerEnvs : Constructed(e)
    /\ sockets = [p \in Ports |-> "open_ok"]

NextRoute == \E raw \in RawPorts : PortInfoRequest(raw)

SpecRoute == InitRoute /\ [][NextRoute]_vars

----------------------------------------------------------------------------
(* TunnelProxy: /api/http-tunnel/{port}?u=<path>, one call from its arrival *)
(* to its end.  tunnel.pc is the call's position: "idle", "connect" (the    *)
(* request is on its way to the target), "stream" (the response has begun   *)
(* and the body is being copied), "done".                                   *)

\* `port` must parse as an integer in [1,65535]
ValidPort_NoUpperBound(port_raw) ==
    int(port_raw).ok /\ int(port_raw).value >= 1

ValidPort(port_raw) ==
    int(port_raw).ok /\ int(port_raw).value \in 1..65535

\* `subpath` is mandatory and must start with "/"
ValidSubpath(u) == u # None /\ StartsWith(u, <<"/">>)

\* str.lower() on the letters header names are written with
LowerChar(c) ==
    LET upper == <<"A", "B", "C", "D", "E", "F", "G", "H", "I", "J", "K", "L", "M",
                   "N", "O", "P", "Q", "R", "S", "T", "U", "V", "W", "X", "Y", "Z">>
        lower == <<"a", "b", "c", "d", "e", "f", "g", "h", "i", "j", "k", "l", "m",
                   "n", "o", "p", "q", "r", "s", "t", "u", "v", "w", "x", "y", "z">>
    IN IF \E k \in 1..26 : upper[k] = c
       THEN lower[CHOOSE k \in 1..26 : upper[k] = c]
       ELSE c

Lower(s) == [k \in 1..Len(s) |-> LowerChar(s[k])]

\* the header names dropped from the outbound request
DroppedNames ==
    { <<"h", "o", "s", "t">>,
      <<"c", "o", "n", "t", "e", "n", "t", "-", "l", "e", "n", "g", "t", "h">>,
      <<"c", "o", "n", "n", "e", "c", "t", "i", "o", "n">>,
      <<"u", "p", "g", "r", "a", "d", "e">>,
      <<"p", "r", "o", "x", "y", "-", "c", "o", "n", "n", "e", "c", "t", "i", "o", "n">>,
      <<"p", "r", "o", "x", "y", "-", "a", "u", "t", "h", "o", "r", "i", "z", "a",
        "t", "i", "o", "n">>,
      <<"t", "r", "a", "n", "s", "f", "e", "r", "-", "e", "n", "c", "o", "d", "i",
        "n", "g">> }

\* the prefixes of the header names dropped: "x-forwarded-" and "x-proxy"
DroppedPrefixes ==
    { <<"x", "-", "f", "o", "r", "w", "a", "r", "d", "e", "d", "-">>,
      <<"x", "-", "p", "r", "o", "x", "y">> }

OriginName == <<"O", "r", "i", "g", "i", "n">>

RefererName == <<"R", "e", "f", "e", "r", "e", "r">>

\* whether the outbound request drops a header of this name
IsDropped_CaseSensitive(name) ==
    \/ name \in DroppedNames
    \/ \E pre \in DroppedPrefixes : StartsWith(name, pre)

IsDropped(name) ==
    \/ Lower(name) \in DroppedNames
    \/ \E pre \in DroppedPrefixes : StartsWith(Lower(name), pre)

\* the synthetic target origin "http://localhost:{port}"
TargetOrigin(port) ==
    HttpScheme \o <<"l", "o", "c", "a", "l", "h", "o", "s", "t", ":">> \o IntStr(port)

\* the inbound headers that stay, in their order
RECURSIVE KeptHeaders(_)
KeptHeaders(headers) ==
    IF Len(headers) = 0 THEN <<>>
    ELSE IF \/ IsDropped(Head(headers).name)
            \/ Lower(Head(headers).name) \in {Lower(OriginName), Lower(RefererName)}
         THEN KeptHeaders(Tail(headers))
         ELSE <<Head(headers)>> \o KeptHeaders(Tail(headers))

\* header sanitization of the outbound request: drop, then set Origin and Referer
SanitizeHeaders(headers, port) ==
    KeptHeaders(headers) \o
    << [name |-> OriginName, value |-> TargetOrigin(port)],
       [name |-> RefererName, value |-> TargetOrigin(port)] >>

\* the request sent to the target: http://localhost:{port}{subpath}
OutboundRequest(port, u, headers) ==
    [ url |-> TargetOrigin(port) \o u, headers |-> SanitizeHeaders(headers, port) ]

\* failure mapping: the status a failed call answers with
FailureStatus_TimeoutAsBadGateway(fault) ==
    IF fault = "invalid" THEN 400
    ELSE IF fault \in {"refused", "timeout"} THEN 502
    ELSE 500

FailureStatus(fault) ==
    IF fault = "invalid" THEN 400
    ELSE IF fault = "refused" THEN 502
    ELSE IF fault = "timeout" THEN 504
    ELSE 500

\* the longest upstream body streamed, and the bodies: strings of two byte values
MaxBody == 3

Bodies == UNION {[1..n -> {"a", "b"}] : n \in 0..MaxBody}

\* the relay's chunk size (64 KiB), scaled to the bodies streamed here
ChunkSize == 2

UpstreamStatuses == {200, 302}

\* everything but the tunnel call
NotTunnel ==
    <<env, _cached_service_config, proxy_template, port_cache, sockets, now,
      url_templates, call, listener, loop>>

\* a tunnel call arrives: validation, then the sanitized request leaves for the target
TunnelRequest(port_raw, u, headers) ==
    /\ tunnel.pc = "idle"
    /\ tunnel' =
          IF ValidPort(port_raw) /\ ValidSubpath(u)
          THEN [tunnel EXCEPT
                   !.pc = "connect", !.port_raw = port_raw, !.u = u,
                   !.inbound = headers, !.port = int(port_raw).value,
                   !.forwarded = <<OutboundRequest(int(port_raw).value, u, headers)>>,
                   !.requests = @ + 1]
          ELSE [tunnel EXCEPT
                   !.pc = "done", !.port_raw = port_raw, !.u = u,
                   !.inbound = headers, !.fault = "invalid",
                   !.outcome = FailureStatus("invalid"),
                   !.status = FailureStatus("invalid"), !.responses = @ + 1]
    /\ UNCHANGED NotTunnel

\* the target refuses, times out or fails otherwise before any response: the
\* failure is mapped to a status and answered, the call ends
TunnelFails(fault) ==
    /\ tunnel.pc = "connect"
    /\ tunnel.caller = "connected"
    /\ tunnel' = [tunnel EXCEPT
                     !.pc = "done", !.fault = fault,
                     !.outcome = FailureStatus(fault),
                     !.status = FailureStatus(fault), !.responses = @ + 1,
                     !.conn = IF fault = "refused" THEN "none" ELSE "released"]
    /\ UNCHANGED NotTunnel

\* the target answers: the streaming response begins with the upstream status
TunnelResponds(status, body) ==
    /\ tunnel.pc = "connect"
    /\ tunnel.caller = "connected"
    /\ tunnel' = [tunnel EXCEPT
                     !.pc = "stream", !.conn = "held", !.status = status,
                     !.responses = @ + 1, !.body = body, !.remaining = body]
    /\ UNCHANGED NotTunnel

\* the chunks delivered after one more is written to the caller
Deliver_Prepend(delivered, chunk) == <<chunk>> \o delivered

Deliver(delivered, chunk) == Append(delivered, chunk)

\* the relay loop reads the next chunk from upstream
TunnelRead ==
    /\ tunnel.pc = "stream"
    /\ tunnel.caller = "connected"
    /\ tunnel.held = <<>>
    /\ tunnel.remaining # <<>>
    /\ \E n \in 1..ChunkSize :
          /\ n <= Len(tunnel.remaining)
          /\ tunnel' = [tunnel EXCEPT
                           !.held = SubSeq(tunnel.remaining, 1, n),
                           !.remaining = Drop(tunnel.remaining, n)]
    /\ UNCHANGED NotTunnel

\* the relay loop writes the chunk it holds to the caller
TunnelWrite ==
    /\ tunnel.pc = "stream"
    /\ tunnel.caller = "connected"
    /\ tunnel.held # <<>>
    /\ tunnel' = [tunnel EXCEPT
                     !.delivered = Deliver(@, tunnel.held), !.held = <<>>]
    /\ UNCHANGED NotTunnel

\* whether the relay finalizes: the upstream stream has ended
StreamEnded(t) == t.held = <<>> /\ t.remaining = <<>>

\* the upstream stream ends: the response is finalized, the connection released
TunnelEnd ==
    /\ tunnel.pc = "stream"
    /\ tunnel.caller = "connected"
    /\ StreamEnded(tunnel)
    /\ tunnel' = [tunnel EXCEPT
                     !.pc = "done", !.finalized = @ + 1, !.conn = "released"]
    /\ UNCHANGED NotTunnel

\* the responses begun for a call after a failure during relay: none is added
\* once streaming has begun
ResponsesAfterFault_Another(responses) == responses + 1

ResponsesAfterFault(responses) == IF responses = 0 THEN 1 ELSE responses

\* an unexpected failure during relay: logged as 500 and swallowed
TunnelFault ==
    /\ tunnel.pc = "stream"
    /\ tunnel.caller = "connected"
    /\ tunnel' = [tunnel EXCEPT
                     !.pc = "done", !.fault = "error",
                     !.outcome = FailureStatus("error"),
                     !.responses = ResponsesAfterFault(@),
                     !.held = <<>>, !.conn = "released"]
    /\ UNCHANGED NotTunnel

\* the external caller disconnects while the call is in flight
CallerDisconnects ==
    /\ tunnel.pc \in {"connect", "stream"}
    /\ tunnel.caller = "connected"
    /\ tunnel' = [tunnel EXCEPT !.caller = "gone"]
    /\ UNCHANGED NotTunnel

\* the upstream connection after the relay aborts
ConnAfterAbort_Leak(conn) == conn

ConnAfterAbort(conn) == IF conn = "held" THEN "released" ELSE conn

\* the relay detects the broken connection: it aborts the upstream read and
\* releases the upstream connection
TunnelAbort ==
    /\ tunnel.pc \in {"connect", "stream"}
    /\ tunnel.caller = "gone"
    /\ tunnel' = [tunnel EXCEPT
                     !.pc = "done", !.fault = "cancelled", !.held = <<>>,
                     !.conn = ConnAfterAbort(@)]
    /\ UNCHANGED NotTunnel

\* the port segments of tunnel calls: "8080", "1", "65535", "0", "70000", "-1", "abc"
TunnelPorts ==
    { <<"8", "0", "8", "0">>, <<"1">>, <<"6", "5", "5", "3", "5">>, <<"0">>,
      <<"7", "0", "0", "0", "0">>, <<"-", "1">>, <<"a", "b", "c">> }

\* the u parameters: missing, "/", "/a?x", "relative", "http://e/"
Subpaths ==
    { None, <<"/">>, <<"/", "a", "?", "x">>,
      <<"r", "e", "l", "a", "t", "i", "v", "e">>, HttpScheme \o <<"e", "/">> }

\* inbound header sets: none; outer-hop artifacts in mixed case; hop-by-hop and
\* proxy headers; names close to dropped ones; inbound Origin and Referer
InboundHeaders ==
    { <<>>,
      << [name |-> <<"H", "o", "s", "t">>, value |-> <<"v">>],
         [name |-> <<"X", "-", "F", "o", "r", "w", "a", "r", "d", "e", "d", "-",
                     "F", "o", "r">>, value |-> <<"v">>],
         [name |-> <<"A", "c", "c", "e", "p", "t">>, value |-> <<"v">>] >>,
      << [name |-> <<"C", "O", "N", "N", "E", "C", "T", "I", "O", "N">>,
          value |-> <<"v">>],
         [name |-> <<"u", "p", "g", "r", "a", "d", "e">>, value |-> <<"v">>],
         [name |-> <<"X", "-", "P", "r", "o", "x", "y", "I", "d">>,
          value |-> <<"v">>],
         [name |-> <<"T", "r", "a", "n", "s", "f", "e", "r", "-", "E", "n", "c",
                     "o", "d", "i", "n", "g">>, value |-> <<"v">>] >>,
      << [name |-> <<"H", "o", "s", "t", "s">>, value |-> <<"v">>],
         [name |-> <<"X", "-", "F", "o", "r", "w", "a", "r", "d">>,
          value |-> <<"v">>],
         [name |-> <<"C", "o", "o", "k", "i", "e">>, value |-> <<"v">>] >>,
      << [name |-> <<"o", "r", "i", "g", "i", "n">>, value |-> <<"v">>],
         [name |-> RefererName, value |-> <<"v">>],
         [name |-> <<"C", "o", "n", "t", "e", "n", "t", "-", "L", "e", "n", "g",
                     "t", "h">>, value |-> <<"v">>] >> }

InitTunnel ==
    /\ Constructed(QuietEnv)
    /\ sockets = [p \in Ports |-> "closed"]

NextTunnel ==
    \/ \E port_raw \in TunnelPorts : \E u \in Subpaths : \E headers \in InboundHeaders :
          TunnelRequest(port_raw, u, headers)
    \/ \E fault \in {"refused", "timeout", "error"} : TunnelFails(fault)
    \/ \E status \in UpstreamStatuses : \E body \in Bodies : TunnelResponds(status, body)
    \/ TunnelRead
    \/ TunnelWrite
    \/ TunnelEnd
    \/ TunnelFault
    \/ CallerDisconnects
    \/ TunnelAbort

SpecTunnel == InitTunnel /\ [][NextTunnel]_vars

\* the scheduler runs the handler of a call whose caller is gone
SpecTunnelFair == SpecTunnel /\ WF_vars(TunnelAbort)

----------------------------------------------------------------------------
(* check_jupyter_proxy step by step, with its throwaway listener.          *)
(* listener.variant is the implementation that runs: "proxy_toolkit"       *)
(* (proxy_toolkit/port_proxy.py) or "legacy" (port_proxy.py); listener.pc  *)
(* is its position: "idle", "loop" (the for loop, at candidate i),         *)
(* "finally", "finally_done" (about to return), "shutdown_wait" (inside    *)
(* test_server.shutdown()), "returned", "raised".                          *)

Variants == {"proxy_toolkit", "legacy"}

\* everything but the run of check_jupyter_proxy
NotListener ==
    <<env, _cached_service_config, proxy_template, port_cache, sockets, now,
      url_templates, call, tunnel, loop>>

\* the call up to the start of the listener thread: the marker branch, the
\* empty server list, the bind, then HTTPServer(...) and serve_forever
ProbeBegin(variant) ==
    /\ listener.pc = "idle"
    /\ listener' =
          IF env.marker # None \/ env.servers = <<>> \/ ~env.bind
          THEN [listener EXCEPT
                   !.variant = variant,
                   !.pc = IF check_jupyter_proxy(env).raised = "none"
                          THEN "returned" ELSE "raised",
                   !.result = check_jupyter_proxy(env).value,
                   !.raised = check_jupyter_proxy(env).raised]
          ELSE [listener EXCEPT
                   !.variant = variant, !.pc = "loop", !.i = 1,
                   !.started = TRUE, !.serving = TRUE]
    /\ UNCHANGED NotListener

\* whether the loop accepts a candidate on the answer to its probe request
Accepts(resp) == resp \in {"200_forwarded", "200_direct"}

\* the mutant of AfterProbe: a request without timeout never comes back from a
\* server that does not answer
AfterProbe_NoTimeout(i, resp) == IF resp = "timeout" THEN i ELSE i + 1

\* the candidate the loop turns to after a probe that was not accepted: the
\* request carries timeout=2, so an unanswered one ends and the loop continues
AfterProbe(i, resp) == i + 1

\* one turn of `for server in servers`: the fields of the entry, the request
\* through its proxy path, the test of the status
ProbeCandidate ==
    /\ listener.pc = "loop"
    /\ listener' =
          IF listener.i > Len(env.servers)
          THEN [listener EXCEPT !.pc = "finally"]
          ELSE IF env.servers[listener.i].json # "dict"
          THEN [listener EXCEPT
                   !.pc = "finally",
                   !.raised = IF listener.variant = "legacy"
                              THEN "TypeError" ELSE "AttributeError"]
          ELSE [listener EXCEPT
                   !.received = IF env.servers[listener.i].resp = "200_forwarded"
                                THEN @ + 1 ELSE @,
                   !.pc = IF Accepts(env.servers[listener.i].resp)
                          THEN "finally" ELSE @,
                   !.result = IF Accepts(env.servers[listener.i].resp)
                              THEN env.servers[listener.i].base_url
                                      \o proxy_template_literal
                              ELSE @,
                   !.i = IF Accepts(env.servers[listener.i].resp) THEN @
                         ELSE AfterProbe(@, env.servers[listener.i].resp)]
    /\ UNCHANGED NotListener

\* `finally: threading.Thread(target=test_server.shutdown, daemon=True).start()`
ProbeFinally ==
    /\ listener.pc = "finally"
    /\ listener.variant = "proxy_toolkit"
    /\ listener' = [listener EXCEPT !.teardown = "requested", !.pc = "finally_done"]
    /\ UNCHANGED NotListener

\* `finally: test_server.shutdown()`: the caller asks and waits for the loop to end
ProbeShutdown ==
    /\ listener.pc = "finally"
    /\ listener.variant = "legacy"
    /\ listener' = [listener EXCEPT !.teardown = "requested", !.pc = "shutdown_wait"]
    /\ UNCHANGED NotListener

\* serve_forever notices the shutdown request and ends
ListenerStops ==
    /\ listener.teardown = "requested"
    /\ listener.serving
    /\ listener' = [listener EXCEPT !.serving = FALSE, !.teardown = "done"]
    /\ UNCHANGED NotListener

\* check_jupyter_proxy returns its result or lets the exception of the loop out
ProbeReturn ==
    /\ \/ listener.pc = "finally_done"
       \/ listener.pc = "shutdown_wait" /\ listener.teardown = "done"
    /\ listener' = [listener EXCEPT
                       !.pc = IF listener.raised = "none" THEN "returned" ELSE "raised"]
    /\ UNCHANGED NotListener

\* server lists of up to MaxCandidates entries
MaxCandidates == 2

InitProbe ==
    /\ \E servers \in UNION {[1..n -> ServerEntries] : n \in 0..MaxCandidates} :
       \E bind \in BOOLEAN : \E marker \in {None, HostA} :
          env = [QuietEnv EXCEPT !.jupyter = "ok", !.servers = servers,
                                 !.bind = bind, !.marker = marker,
                                 !.prefix = PrefixA]
    /\ _cached_service_config = None
    /\ proxy_template = None
    /\ port_cache = <<>>
    /\ sockets = [p \in Ports |-> "closed"]
    /\ now = StartTime
    /\ url_templates = <<>>
    /\ call = NoCall
    /\ listener = NoListener
    /\ tunnel = NoTunnel
    /\ loop = NoLoop

NextProbe ==
    \/ \E variant \in Variants : ProbeBegin(variant)
    \/ ProbeCandidate
    \/ ProbeFinally
    \/ ProbeShutdown
    \/ ListenerStops
    \/ ProbeReturn

SpecProbe == InitProbe /\ [][NextProbe]_vars

\* the threads run: the caller's, and the daemon threads of the listener
SpecProbeFair ==
    /\ SpecProbe
    /\ WF_vars(ProbeCandidate) /\ WF_vars(ProbeFinally) /\ WF_vars(ProbeShutdown)
    /\ WF_vars(ListenerStops) /\ WF_vars(ProbeReturn)

----------------------------------------------------------------------------
(* The request handlers as asyncio tasks, statement by statement.  A task  *)
(* keeps the event loop from the statement that enters its handler until   *)
(* it suspends (an await) or returns; loop.tasks[t].pc is its position:    *)
(* "idle", "entered", "checked" (after `port not in self.port_cache`),     *)
(* "inserted", "iter" (inside the for loop of list_ports_handler),         *)
(* "refreshed", "done".                                                    *)

\* whether a handler gives the event loop away when it reaches pc: the handlers
\* contain no await, so only when they return
Suspends_AfterCheck(pc) == pc \in {"checked", "done"}

Suspends(pc) == pc = "done"

\* the event loop after task t has moved to position pc
Running(t, pc) == IF Suspends(pc) THEN 0 ELSE t

\* `self.port_cache[port] = PortInfo(port)`: a dict assignment, which replaces
\* the value of a key that is present
Assigned(cache, port) ==
    IF IndexOf(cache, port) = 0 THEN Append(cache, PortInfo(port))
    ELSE [cache EXCEPT ![IndexOf(cache, port)] = PortInfo(port)]

\* the event loop enters the handler of a request: GET /api/port/{port} with an
\* integer port, or GET /api/ports
HandlerEnters(t, op, port) ==
    /\ loop.running = 0
    /\ loop.tasks[t].pc = "idle"
    /\ loop' = [loop EXCEPT
                   !.running = Running(t, "entered"),
                   !.tasks[t] = [NoTask EXCEPT !.pc = "entered", !.op = op,
                                               !.port = port]]
    /\ UNCHANGED <<env, _cached_service_config, proxy_template, port_cache,
                   sockets, now, url_templates, call, listener, tunnel>>

\* port_info_handler: `if port not in self.port_cache:`
PortCheck(t) ==
    /\ loop.running \in {0, t}
    /\ loop.tasks[t].pc = "entered"
    /\ loop.tasks[t].op = "port_info_handler"
    /\ loop' = [loop EXCEPT
                   !.running = Running(t, "checked"),
                   !.tasks[t].pc = "checked",
                   !.tasks[t].absent = (IndexOf(port_cache, loop.tasks[t].port) = 0)]
    /\ UNCHANGED <<env, _cached_service_config, proxy_template, port_cache,
                   sockets, now, url_templates, call, listener, tunnel>>

\* port_info_handler: `self.port_cache[port] = PortInfo(port)` when the test held
PortInsert(t) ==
    /\ loop.running \in {0, t}
    /\ loop.tasks[t].pc = "checked"
    /\ port_cache' = IF loop.tasks[t].absent
                     THEN Assigned(port_cache, loop.tasks[t].port)
                     ELSE port_cache
    /\ loop' = [loop EXCEPT
                   !.running = Running(t, "inserted"),
                   !.tasks[t].pc = "inserted"]
    /\ UNCHANGED <<env, _cached_service_config, proxy_template, sockets, now,
                   url_templates, call, listener, tunnel>>

\* port_info_handler: `self._update_port_info(port_info)`
PortRefresh(t) ==
    /\ loop.running \in {0, t}
    /\ loop.tasks[t].pc = "inserted"
    /\ \E i \in {IndexOf(port_cache, loop.tasks[t].port)} :
       \E u \in {_update_port_info(port_cache[i], now, _cached_service_config, env)} :
          /\ port_cache' = [port_cache EXCEPT ![i] = u.info]
          /\ _cached_service_config' = u.cache
          /\ loop' = [loop EXCEPT
                         !.running = Running(t, IF u.out.raised = "none"
                                                THEN "refreshed" ELSE "done"),
                         !.tasks[t].pc = IF u.out.raised = "none"
                                         THEN "refreshed" ELSE "done",
                         !.tasks[t].raised = u.out.raised]
    /\ UNCHANGED <<env, proxy_template, sockets, now, url_templates, call,
                   listener, tunnel>>

\* list_ports_handler: `for port_info in self.port_cache.values():` begins
ListBegin(t) ==
    /\ loop.running \in {0, t}
    /\ loop.tasks[t].pc = "entered"
    /\ loop.tasks[t].op = "list_ports_handler"
    /\ loop' = [loop EXCEPT
                   !.running = Running(t, "iter"),
                   !.tasks[t].pc = "iter", !.tasks[t].i = 1,
                   !.tasks[t].n = Len(port_cache)]
    /\ UNCHANGED <<env, _cached_service_config, proxy_template, port_cache,
                   sockets, now, url_templates, call, listener, tunnel>>

\* list_ports_handler: one turn of the for loop; a dict that changed its size
\* since the loop began raises RuntimeError
ListIterate(t) ==
    /\ loop.running \in {0, t}
    /\ loop.tasks[t].pc = "iter"
    /\ IF Len(port_cache) # loop.tasks[t].n
       THEN /\ loop' = [loop EXCEPT
                           !.running = Running(t, "done"),
                           !.tasks[t].pc = "done",
                           !.tasks[t].raised = "RuntimeError"]
            /\ UNCHANGED <<port_cache, _cached_service_config>>
       ELSE IF loop.tasks[t].i > loop.tasks[t].n
       THEN /\ loop' = [loop EXCEPT
                           !.running = Running(t, "refreshed"),
                           !.tasks[t].pc = "refreshed"]
            /\ UNCHANGED <<port_cache, _cached_service_config>>
       ELSE \E u \in {_update_port_info(port_cache[loop.tasks[t].i], now,
                                        _cached_service_config, env)} :
               /\ port_cache' = [port_cache EXCEPT ![loop.tasks[t].i] = u.info]
               /\ _cached_service_config' = u.cache
               /\ loop' = [loop EXCEPT
                              !.running = Running(t, "iter"),
                              !.tasks[t].i = @ + 1]
    /\ UNCHANGED <<env, proxy_template, sockets, now, url_templates, call,
                   listener, tunnel>>

\* `return web.json_response(...)`: the record of the port, or all records
HandlerReturns(t) ==
    /\ loop.running \in {0, t}
    /\ loop.tasks[t].pc = "refreshed"
    /\ loop' = [loop EXCEPT
                   !.running = Running(t, "done"),
                   !.tasks[t].pc = "done",
                   !.tasks[t].body =
                       IF loop.tasks[t].op = "port_info_handler"
                       THEN <<to_dict(port_cache[IndexOf(port_cache,
                                                          loop.tasks[t].port)])>>
                       ELSE [k \in 1..Len(port_cache) |-> to_dict(port_cache[k])]]
    /\ UNCHANGED <<env, _cached_service_config, proxy_template, port_cache,
                   sockets, now, url_templates, call, listener, tunnel>>

InitAsync ==
    /\ \E e \in ServerEnvs : Constructed(e)
    /\ sockets \in [Ports -> {"closed", "open_ok"}]

NextAsync ==
    \/ \E t \in Tasks : \E port \in Ports : HandlerEnters(t, "port_info_handler", port)
    \/ \E t \in Tasks : HandlerEnters(t, "list_ports_handler", 0)
    \/ \E t \in Tasks : PortCheck(t)
    \/ \E t \in Tasks : PortInsert(t)
    \/ \E t \in Tasks : PortRefresh(t)
    \/ \E t \in Tasks : ListBegin(t)
    \/ \E t \in Tasks : ListIterate(t)
    \/ \E t \in Tasks : HandlerReturns(t)

SpecAsync == InitAsync /\ [][NextAsync]_vars

----------------------------------------------------------------------------
(* The running server while its environment changes: services start and    *)
(* stop after PortServer.__init__ has run the detection.                   *)

\* the environment becomes another of the environments a server can run in
EnvSwitch ==
    /\ \E e \in ServerEnvs : e # env /\ env' = e
    /\ call' = NoCall
    /\ UNCHANGED <<_cached_service_config, proxy_template, port_cache, sockets,
                   now, url_templates, listener, tunnel, loop>>

InitDrift ==
    /\ \E e \in ServerEnvs : Constructed(e)
    /\ sockets = [p \in Ports |-> "open_ok"]

NextDrift ==
    \/ \E port \in Ports : port_info_handler(port)
    \/ list_ports_handler
    \/ Tick
    \/ EnvSwitch

SpecDrift == InitDrift /\ [][NextDrift]_vars

----------------------------------------------------------------------------
(* The capacity the registry is specified to have.                         *)

Capacity == 100

\* the ports of the registry in dict order, oldest insertion first
PortOrder(cache) == [i \in 1..Len(cache) |-> cache[i].port]

----------------------------------------------------------------------------
(* Claims.                                                                 *)

\* C1: after any sequence of GET /api/port/{port} requests the registry
\* (PortServer.port_cache) holds at most 100 records.
C1_RegistryWithinCapacity == Len(port_cache) <= Capacity

\* the recency order after port is inserted or refreshed, least recent first
C2_Touched(order, port) == SelectSeq(order, LAMBDA q : q # port) \o <<port>>

C2_Expected(order, port) ==
    IF Len(C2_Touched(order, port)) > Capacity
    THEN Tail(C2_Touched(order, port))
    ELSE C2_Touched(order, port)

\* C2: every insertion or refresh makes the record the most recently used one,
\* and when the registry would hold more than 100 records exactly the least
\* recently used record is removed: the order of the registry after a request
\* is the order before it with the port moved to the recent end and, on
\* overflow, the oldest port dropped.
C2_LruOrderAndEviction ==
    [][call'.op = "port_info_handler"
       => PortOrder(port_cache') = C2_Expected(PortOrder(port_cache), call'.port)]_vars

\* C3: a GET /api/port/{port} for a port whose record was checked less than 5
\* seconds ago leaves the registry as it is (last_check, is_listening, owner,
\* proxy_url unchanged), performs no connect, no process lookup and no proxy-URL
\* computation, and returns the record as it was.
C3_ThrottledRefreshUnchanged ==
    [][\A port \in Ports :
          ( /\ IndexOf(port_cache, port) # 0
            /\ now - port_cache[IndexOf(port_cache, port)].last_check < 5
            /\ port_info_handler(port) )
          => /\ port_cache' = port_cache
             /\ call'.probes = {}
             /\ call'.body = <<to_dict(port_cache[IndexOf(port_cache, port)])>>
             /\ _cached_service_config' = _cached_service_config]_vars

\* C3 witness: a request answered from a record checked earlier within the
\* window, although a refresh would have found the port listening
C3_Witness ==
    /\ call.op = "port_info_handler"
    /\ call.probes = {}
    /\ IndexOf(port_cache, call.port) # 0
    /\ port_cache[IndexOf(port_cache, call.port)].last_check > 0
    /\ port_cache[IndexOf(port_cache, call.port)].last_check < now
    /\ ~port_cache[IndexOf(port_cache, call.port)].is_listening
    /\ SocketOf(call.port) = "open_ok"

\* C4: the first detect_service_config(use_cache=True) call that returns runs
\* the detection and stores its result, the empty string included; once the
\* cache is set no call changes it, and every later cached call returns the
\* stored value without running the detection or any probe.
C4_CachedTemplateNeverChanges ==
    [][ /\ (_cached_service_config # None
               => _cached_service_config' = _cached_service_config)
        /\ (_cached_service_config # None /\ DetectServiceConfig(TRUE)
               => /\ call'.result = _cached_service_config
                  /\ call'.raised = "none"
                  /\ call'.probes = {}
                  /\ ~call'.detected)
        /\ (_cached_service_config = None /\ DetectServiceConfig(TRUE)
               => /\ call'.detected
                  /\ (call'.raised = "none"
                        => _cached_service_config' = call'.result)) ]_vars

\* C4 witness: a cached call answered with the stored empty template in an
\* environment where the detection would now find a template
C4_Witness ==
    /\ call.op = "detect_service_config"
    /\ call.use_cache
    /\ ~call.detected
    /\ _cached_service_config = EmptyStr
    /\ call.result = EmptyStr
    /\ DetectBody(env).raised = "none"
    /\ DetectBody(env).value # EmptyStr

\* C5: detect_service_config(use_cache=False) always runs the detection and
\* leaves the cached template as it was, unset or set.
C5_UncachedCallLeavesCache ==
    [][\A use_cache \in {FALSE} :
          DetectServiceConfig(use_cache)
          => /\ call'.detected
             /\ _cached_service_config' = _cached_service_config]_vars

\* C5 witness: an uncached call that returned a template other than the stored one
C5_Witness ==
    /\ call.op = "detect_service_config"
    /\ ~call.use_cache
    /\ call.detected
    /\ call.raised = "none"
    /\ _cached_service_config # None
    /\ call.result # _cached_service_config
    /\ call.result # EmptyStr

\* C6: detect_service_config never raises: whatever the environment, the call
\* returns a template string, possibly empty.
C6_DetectNeverRaises ==
    call.op = "detect_service_config"
    => call.raised = "none" /\ call.result # None

\* C7: whenever STUDIO_MODEL_API_URL_PREFIX is set (here to a host, with its
\* companion JUPYTERHUB_SERVICE_PREFIX set too), a detection returns the template built
\* from the two variables and performs no socket enumeration, process
\* inspection, notebook round trip or code-editor probe.
C7_MarkerShortCircuits ==
    ( /\ call.op = "detect_service_config"
      /\ call.detected
      /\ call.raised = "none"
      /\ env.marker # None
      /\ env.marker # EmptyStr
      /\ env.prefix # None )
    => /\ call.result = env.marker \o env.prefix \o GradioSuffix
       /\ call.probes = {}

\* the path component of a template as the claim reads it: the whole string of
\* a path-only template, the URL path of an http or https template
C8_PathOf(t) ==
    IF StartsWith(t, HttpScheme) \/ StartsWith(t, HttpsScheme)
    THEN UrlParsePath(t)
    ELSE t

\* the number of non-empty "/"-delimited segments: the places where one starts
C8_Segments(t) ==
    Cardinality({i \in 1..Len(C8_PathOf(t)) :
                    /\ C8_PathOf(t)[i] # "/"
                    /\ (i = 1 \/ C8_PathOf(t)[i - 1] = "/")})

\* C8: for a non-empty candidate list the selected template is the first member
\* of the list whose path component has the least number of non-empty segments;
\* for the empty list it is the empty template.
C8_SelectsFirstShortestPath ==
    call.op = "select_template"
    => IF url_templates = <<>>
       THEN call.result = EmptyStr
       ELSE \E i \in 1..Len(url_templates) :
               /\ call.result = url_templates[i]
               /\ \A j \in 1..Len(url_templates) :
                     C8_Segments(url_templates[j]) >= C8_Segments(url_templates[i])
               /\ \A j \in 1..(i - 1) :
                     C8_Segments(url_templates[j]) > C8_Segments(url_templates[i])

\* C8 witness: three candidates, the second an http template whose query holds
\* slashes, tied for the least count with the third; the second is selected
C8_Witness ==
    /\ call.op = "select_template"
    /\ Len(url_templates) = 3
    /\ url_templates[2] = TplQuery
    /\ C8_Segments(url_templates[3]) = C8_Segments(url_templates[2])
    /\ C8_Segments(url_templates[1]) > C8_Segments(url_templates[2])
    /\ call.result = url_templates[2]

\* the offsets at which the port token occurs in a template
C9_Occurrences(t) ==
    {k \in 0..(Len(t) - Len(PortToken)) :
        SubSeq(t, k + 1, k + Len(PortToken)) = PortToken}

\* what position k of the template becomes: the digits where an occurrence starts,
\* nothing inside an occurrence, the character itself elsewhere
C9_Piece(t, digits, k) ==
    IF (k - 1) \in C9_Occurrences(t) THEN digits
    ELSE IF \E o \in C9_Occurrences(t) : o < k - 1 /\ k - 1 < o + Len(PortToken)
         THEN <<>>
         ELSE <<t[k]>>

RECURSIVE C9_Pieces(_, _, _)
C9_Pieces(t, digits, k) ==
    IF k > Len(t) THEN <<>> ELSE C9_Piece(t, digits, k) \o C9_Pieces(t, digits, k + 1)

\* the number a sequence of decimal digits denotes
RECURSIVE C9_Value(_)
C9_Value(digits) ==
    IF digits = <<>> THEN 0
    ELSE 10 * C9_Value(SubSeq(digits, 1, Len(digits) - 1))
         + (CHOOSE d \in 0..9 : Digit(d) = digits[Len(digits)])

\* C9: for a non-empty cached template, generate_proxy_url(port) is the
\* template with every occurrence of {{port}} replaced by the decimal digits of
\* the port and nothing else changed, and holds no {{port}} any more.
C9_EveryTokenReplaced ==
    (call.op = "generate_proxy_url" /\ _cached_service_config # EmptyStr)
    => /\ call.raised = "none"
       /\ \E digits \in {IntStr(call.port)} :
             /\ C9_Value(digits) = call.port
             /\ digits[1] # "0"
             /\ call.result = C9_Pieces(_cached_service_config, digits, 1)
       /\ ~Contains(call.result, PortToken)

\* C9 witness: a template with two occurrences, generated for port 8080
C9_Witness ==
    /\ call.op = "generate_proxy_url"
    /\ call.port = 8080
    /\ Cardinality(C9_Occurrences(_cached_service_config)) = 2
    /\ call.result # _cached_service_config
    /\ Len(call.result) = Len(_cached_service_config) - 2 * Len(PortToken) + 8

\* C10: while the cached template is empty, generate_proxy_url returns the
\* empty string for every port and does not invoke the config writer, and the
\* url-template endpoint reports template "" with has_proxy_support false.
C10_NoTemplateNoUrl ==
    _cached_service_config = EmptyStr
    => /\ (call.op = "generate_proxy_url"
             => /\ call.result = EmptyStr
                /\ call.raised = "none"
                /\ "update_config" \notin call.probes)
       /\ (call.op = "url_template_handler"
             => /\ call.result = EmptyStr
                /\ ~call.has_proxy_support)

\* C10 witness: generate_proxy_url called on the platform with no template cached
C10_Witness ==
    /\ _cached_service_config = EmptyStr
    /\ env.marker # None
    /\ call.op = "generate_proxy_url"
    /\ call.port = 8080
    /\ call.result = EmptyStr


----------------------------------------------------------------------------
\* C11: a request for GET /api/port/{port} whose port is no integer or is an
\* integer outside 1..65535 is answered 400 and creates no record, so every
\* record the registry holds has its port in 1..65535.
C11_InvalidPortRejected ==
    /\ \A i \in 1..Len(port_cache) : port_cache[i].port \in 1..65535
    /\ (call.op = "port_info_handler" /\ call.port \notin 1..65535)
          => call.status = 400

----------------------------------------------------------------------------
\* C12: a tunnel call is forwarded upstream only if its port parses as an
\* integer in 1..65535 and its u parameter is present and starts with "/"; any
\* other call is answered 400 with no upstream request, and u = "/" with a
\* valid port is accepted.
C12_PortOk == int(tunnel.port_raw).ok /\ int(tunnel.port_raw).value \in 1..65535

C12_SubpathOk == tunnel.u # None /\ Len(tunnel.u) > 0 /\ tunnel.u[1] = "/"

C12_TunnelValidation ==
    tunnel.pc # "idle" =>
       /\ (tunnel.requests > 0 \/ tunnel.forwarded # <<>>)
             => (C12_PortOk /\ C12_SubpathOk)
       /\ ~(C12_PortOk /\ C12_SubpathOk)
             => (tunnel.status = 400 /\ tunnel.requests = 0 /\ tunnel.pc = "done")
       /\ (C12_PortOk /\ tunnel.u = <<"/">>)
             => (tunnel.requests = 1 /\ tunnel.fault # "invalid")

\* port 70000 with u = "/" has been answered
C12_Witness ==
    /\ tunnel.pc = "done"
    /\ tunnel.port_raw = <<"7", "0", "0", "0", "0">>
    /\ tunnel.u = <<"/">>
    /\ tunnel.status = 400

----------------------------------------------------------------------------
\* C13: a tunnel call that fails ends in exactly one of four outcomes, answered
\* by the handler: invalid input 400, connection failure 502, target timeout
\* 504, any other failure during relay 500; the target is asked at most once.
C13_Expected ==
    [invalid |-> 400, refused |-> 502, timeout |-> 504, error |-> 500]

C13_FailuresMapped ==
    /\ tunnel.requests <= 1
    /\ tunnel.fault \in DOMAIN C13_Expected =>
          /\ tunnel.pc = "done"
          /\ tunnel.outcome = C13_Expected[tunnel.fault]
          /\ tunnel.responses = 1
          /\ tunnel.status \in {tunnel.outcome} \cup UpstreamStatuses
          /\ tunnel.fault # "error" => tunnel.status = tunnel.outcome
          /\ tunnel.fault = "invalid" => tunnel.requests = 0

\* a call whose target timed out has been answered
C13_Witness ==
    /\ tunnel.pc = "done"
    /\ tunnel.fault = "timeout"
    /\ tunnel.status = 504
    /\ tunnel.requests = 1

----------------------------------------------------------------------------
\* C14: whatever the upstream body and however it is split into chunks of at
\* most the chunk size, the chunks delivered to the caller, concatenated in
\* delivery order, are the upstream body: nothing dropped, duplicated or
\* reordered, and the relay holds at most one chunk.
RECURSIVE C14_Concat(_)
C14_Concat(chunks) ==
    IF Len(chunks) = 0 THEN <<>> ELSE Head(chunks) \o C14_Concat(Tail(chunks))

C14_BodyRelayed ==
    /\ Len(tunnel.held) <= ChunkSize
    /\ \A k \in 1..Len(tunnel.delivered) : Len(tunnel.delivered[k]) \in 1..ChunkSize
    /\ tunnel.pc = "stream"
          => C14_Concat(tunnel.delivered) \o tunnel.held \o tunnel.remaining = tunnel.body
    /\ tunnel.finalized > 0 => C14_Concat(tunnel.delivered) = tunnel.body
    /\ C14_Concat(tunnel.delivered)
          = SubSeq(tunnel.body, 1, Len(C14_Concat(tunnel.delivered)))

\* a body of three bytes has been delivered in two chunks
C14_Witness ==
    /\ tunnel.finalized = 1
    /\ Len(tunnel.body) = 3
    /\ Len(tunnel.delivered) = 2

----------------------------------------------------------------------------
\* C15: once the caller has disconnected the relay reads no more from upstream
\* and the upstream connection of the call is eventually released; no call
\* ends, however it ends, with its upstream connection still held.
C15_UpstreamReleased ==
    /\ [](tunnel.pc = "done" => tunnel.conn # "held")
    /\ [][tunnel.caller = "gone" => tunnel'.remaining = tunnel.remaining]_vars
    /\ ((tunnel.caller = "gone") ~> (tunnel.conn # "held"))

\* the caller left in the middle of a streamed body and the call has ended
C15_Witness ==
    /\ tunnel.pc = "done"
    /\ tunnel.caller = "gone"
    /\ tunnel.delivered # <<>>
    /\ tunnel.remaining # <<>>
    /\ tunnel.conn = "released"

----------------------------------------------------------------------------
\* C16: the request forwarded to the target carries no inbound header named
\* host, content-length, connection, upgrade, proxy-connection,
\* proxy-authorization or transfer-encoding, nor one whose name starts with
\* x-forwarded- or x-proxy, in any case; every other inbound header is
\* forwarded; Origin and Referer are http://localhost:{port}, replacing
\* inbound values.
C16_Forbidden(name) ==
    \/ Lower(name) \in DroppedNames
    \/ \E pre \in DroppedPrefixes :
          Len(name) >= Len(pre) /\ Lower(SubSeq(name, 1, Len(pre))) = pre

C16_Synthetic(name) == Lower(name) \in {Lower(OriginName), Lower(RefererName)}

C16_HeadersSanitized ==
    tunnel.forwarded # <<>> =>
       LET out == tunnel.forwarded[1].headers
           origin == HttpScheme \o <<"l", "o", "c", "a", "l", "h", "o", "s", "t", ":">>
                        \o IntStr(tunnel.port)
       IN /\ \A k \in 1..Len(out) : ~C16_Forbidden(out[k].name)
          /\ \A j \in 1..Len(tunnel.inbound) :
                (~C16_Forbidden(tunnel.inbound[j].name)
                    /\ ~C16_Synthetic(tunnel.inbound[j].name))
                   => \E k \in 1..Len(out) : out[k] = tunnel.inbound[j]
          /\ \A n \in {OriginName, RefererName} :
                /\ Cardinality({k \in 1..Len(out) : Lower(out[k].name) = Lower(n)}) = 1
                /\ \A k \in 1..Len(out) :
                      Lower(out[k].name) = Lower(n) => out[k].value = origin

\* a call carrying CONNECTION and X-ProxyId has been forwarded
C16_Witness ==
    /\ tunnel.forwarded # <<>>
    /\ \E j \in 1..Len(tunnel.inbound) :
          tunnel.inbound[j].name = <<"C", "O", "N", "N", "E", "C", "T", "I", "O", "N">>

----------------------------------------------------------------------------
\* C18: a tunneled response is finalized at most once and only after the
\* upstream stream has ended; no chunk is written after finalization, and no
\* call, also one that fails after streaming began, gets a second response.
C18_FinalizedOnce ==
    /\ [](/\ tunnel.finalized <= 1
          /\ tunnel.responses <= 1
          /\ tunnel.finalized = 1 =>
                (tunnel.remaining = <<>> /\ tunnel.held = <<>> /\ tunnel.pc = "done")
          /\ (tunnel.pc = "done" /\ tunnel.fault = "none") => tunnel.finalized = 1)
    /\ [][tunnel.finalized >= 1 => tunnel'.delivered = tunnel.delivered]_vars

\* a call has failed after a part of its body was delivered
C18_Witness ==
    /\ tunnel.pc = "done"
    /\ tunnel.fault = "error"
    /\ tunnel.delivered # <<>>
    /\ tunnel.responses = 1

----------------------------------------------------------------------------
\* C19: a refresh of a port record never fails the call: when the port is
\* listening but its process has vanished, is denied, or the connection table
\* cannot be read, the owner fields are unset while is_listening, proxy_url and
\* last_check are updated and the record is returned.
C19_ProxyUrl(port) ==
    IF _cached_service_config = EmptyStr THEN EmptyStr
    ELSE StrReplace(_cached_service_config, PortToken, IntStr(port))

C19_Due(port) ==
    \/ IndexOf(port_cache, port) = 0
    \/ now - port_cache[IndexOf(port_cache, port)].last_check >= 5

C19_RefreshNeverFails ==
    /\ [](call.raised = "none")
    /\ [][\A port \in Ports :
             (C19_Due(port) /\ port_info_handler(port))
             => /\ call'.status = 200
                /\ IndexOf(port_cache', port) # 0
                /\ call'.body = <<to_dict(port_cache'[IndexOf(port_cache', port)])>>
                /\ port_cache'[IndexOf(port_cache', port)].last_check = now
                /\ port_cache'[IndexOf(port_cache', port)].is_listening
                      = (sockets[port] # "closed")
                /\ port_cache'[IndexOf(port_cache', port)].proxy_url
                      = C19_ProxyUrl(port)
                /\ sockets[port] \in {"open_gone", "open_no_table"}
                      => /\ call'.body[1].process_pid = NoInt
                         /\ call'.body[1].process_name = None
                         /\ call'.body[1].process_cmdline = None]_vars

\* C19 witness: a later refresh found the port listening with no readable owner
C19_Witness ==
    /\ call.op = "port_info_handler"
    /\ "process_lookup" \in call.probes
    /\ SocketOf(call.port) \in {"open_gone", "open_no_table"}
    /\ port_cache[IndexOf(port_cache, call.port)].last_check = now
    /\ now > StartTime
    /\ call.body[1].is_listening
    /\ call.body[1].process_pid = NoInt

----------------------------------------------------------------------------
\* C17: check_jupyter_proxy takes a template from a notebook-server candidate
\* only if the throwaway listener received and answered the probe request sent
\* through that candidate's proxy path; a candidate answering 200 itself is
\* not accepted.
C17_AcceptedOnlyIfForwarded ==
    (listener.started /\ listener.result # EmptyStr) => listener.received > 0

----------------------------------------------------------------------------
\* C20: once the throwaway listener has been started, every exit of
\* check_jupyter_proxy (accepted, all rejected, exception) has initiated its
\* teardown, check_jupyter_proxy returns without waiting for the teardown to
\* complete, and the listener eventually stops serving.
C20_TeardownNeverBlocks ==
    /\ []((listener.started /\ listener.pc \in {"returned", "raised"})
             => listener.teardown # "none")
    /\ []((listener.teardown = "requested"
             /\ listener.pc \notin {"returned", "raised"})
             => ENABLED ProbeReturn)
    /\ (listener.started ~> ~listener.serving)

----------------------------------------------------------------------------
\* C21: under any interleaving of the request handlers no handler suspends
\* between reading and writing the registry or a record: at most one handler is
\* between its entry and its return, the loop of list_ports_handler never sees
\* an insertion, no handler fails, and two requests for the same port leave
\* the record as one refresh leaves it.
C21_InFlight == {t \in Tasks : loop.tasks[t].pc \notin {"idle", "done"}}

C21_OneRefresh(port) ==
    _update_port_info(PortInfo(port), now, _cached_service_config, env).info

C21_HandlersAtomic ==
    /\ Cardinality(C21_InFlight) <= 1
    /\ \A t \in Tasks : loop.tasks[t].raised = "none"
    /\ \A t \in Tasks :
          loop.tasks[t].pc = "iter" => Len(port_cache) = loop.tasks[t].n
    /\ \A port \in Ports :
          (\A t \in Tasks : /\ loop.tasks[t].pc = "done"
                            /\ loop.tasks[t].op = "port_info_handler"
                            /\ loop.tasks[t].port = port)
          => /\ port_cache = <<C21_OneRefresh(port)>>
             /\ \A t \in Tasks : loop.tasks[t].body = <<to_dict(port_cache[1])>>

\* C21 witness: two requests for the same listening port have both returned
C21_Witness ==
    /\ \A t \in Tasks : /\ loop.tasks[t].pc = "done"
                        /\ loop.tasks[t].op = "port_info_handler"
                        /\ loop.tasks[t].port = 80
    /\ Len(port_cache) = 1
    /\ port_cache[1].is_listening

----------------------------------------------------------------------------
\* C22: the config writer's update is invoked only from generate_proxy_url,
\* only after a non-empty proxy URL was computed for the port and only when
\* the platform marker variable is present; a failure inside update neither
\* changes the proxy URL returned nor reaches the caller.
C22_WriterProbes == {"update_config", "config_written", "config_failed"}

C22_Url ==
    IF _cached_service_config = EmptyStr THEN EmptyStr
    ELSE StrReplace(_cached_service_config, PortToken, IntStr(call.port))

C22_ConfigWriterContained ==
    /\ call.op # "generate_proxy_url" => call.probes \cap C22_WriterProbes = {}
    /\ call.op = "generate_proxy_url" =>
          /\ call.raised = "none"
          /\ call.result = C22_Url
          /\ ("update_config" \in call.probes)
                <=> (call.result # EmptyStr /\ env.marker # None)
          /\ "config_failed" \in call.probes
                <=> (/\ "update_config" \in call.probes
                     /\ env.config \in {"malformed", "unreadable", "readonly"})

\* C22 witness: the URL of port 8080 was returned although the config file is
\* malformed
C22_Witness ==
    /\ call.op = "generate_proxy_url"
    /\ call.port = 8080
    /\ env.config = "malformed"
    /\ "config_failed" \in call.probes
    /\ call.result = HostA \o PrefixA \o <<"g", "r", "a", "d", "i", "o", "/",
                                           "8", "0", "8", "0", "/">>

----------------------------------------------------------------------------
\* C23: every run of the detection's round-trip check terminates: the loop
\* visits each registered notebook server at most once, each probe answers or
\* times out, and stopping the throwaway listener does not hold the call
\* forever, so the call returns (or raises) and construction is not hung.
C23_DetectionTerminates ==
    /\ [](listener.i <= Len(env.servers) + 1)
    /\ ((listener.pc # "idle") ~> (listener.pc \in {"returned", "raised"}))

\* C23 witness: the legacy check returned after two servers that never answered
\* and after its listener had stopped
C23_Witness ==
    /\ listener.pc = "returned"
    /\ listener.variant = "legacy"
    /\ Len(env.servers) = 2
    /\ \A k \in 1..2 : env.servers[k].resp = "timeout"
    /\ listener.i = 3
    /\ listener.teardown = "done"
    /\ listener.result = EmptyStr

----------------------------------------------------------------------------
\* C24: in every state of the registry a record that is not listening has no
\* owner (process_pid, process_name, process_cmdline unset), and a refresh that
\* is not throttled and finds the port closed leaves the record without owner.
C24_NoOwner(r) ==
    r.process_pid = NoInt /\ r.process_name = None /\ r.process_cmdline = None

C24_NotListeningNoOwner ==
    /\ [](\A k \in 1..Len(port_cache) :
             ~port_cache[k].is_listening => C24_NoOwner(port_cache[k]))
    /\ [][\A port \in Ports :
             ( /\ IndexOf(port_cache, port) # 0
               /\ now - port_cache[IndexOf(port_cache, port)].last_check >= 5
               /\ sockets[port] = "closed"
               /\ port_info_handler(port) )
             => /\ ~port_cache'[IndexOf(port_cache, port)].is_listening
                /\ C24_NoOwner(port_cache'[IndexOf(port_cache, port)])
                /\ port_cache'[IndexOf(port_cache, port)].last_check = now]_vars

\* C24 witness: a later refresh found the port closed
C24_Witness ==
    /\ call.op = "port_info_handler"
    /\ call.probes # {}
    /\ "process_lookup" \notin call.probes
    /\ now >= StartTime + 5
    /\ port_cache[IndexOf(port_cache, call.port)].last_check = now
    /\ ~port_cache[IndexOf(port_cache, call.port)].is_listening
    /\ C24_NoOwner(port_cache[IndexOf(port_cache, call.port)])

----------------------------------------------------------------------------
\* C25: in every state every record refreshed at least once (last_check > 0)
\* has proxy_url equal to the cached template with the port token replaced by
\* its port (the empty string for the empty template), and the server's
\* proxy_template is the cached template.
C25_Url(port) ==
    IF _cached_service_config = EmptyStr THEN EmptyStr
    ELSE StrReplace(_cached_service_config, PortToken, IntStr(port))

C25_ProxyUrlFollowsCache ==
    /\ proxy_template = _cached_service_config
    /\ \A k \in 1..Len(port_cache) :
          port_cache[k].last_check > 0
             => port_cache[k].proxy_url = C25_Url(port_cache[k].port)

\* C25 witness: a server constructed without proxy refreshed a record after a
\* code-server with a proxy URI had started
C25_Witness ==
    /\ _cached_service_config = EmptyStr
    /\ env = CodeServerEnv
    /\ call.op = "port_info_handler"
    /\ call.probes # {}
    /\ port_cache[IndexOf(port_cache, call.port)].last_check = now
    /\ port_cache[IndexOf(port_cache, call.port)].proxy_url = EmptyStr

====
